---- MODULE Spec2Model ----
(***************************************************************************)
(* A model of src/filter/direct_fir.c: the direct-form complex FIR with    *)
(* integer decimation, its two-slot sample-buffer window (sb_active,       *)
(* sb_next), the per-output kernel _direct_fir_process_sample in both of   *)
(* its builds (scalar and ARM NEON), and the public operations init, push, *)
(* process, can_process, full and cleanup.                                 *)
(*                                                                         *)
(* Unsigned arithmetic.  sample_offset, nr_samples and the kernel's locals *)
(* are size_t.  A size_t value v is represented by the integer r with      *)
(* r = v when v is small and r = v - 2^w when v has wrapped below zero     *)
(* (w the width of size_t).  Addition and subtraction of representatives   *)
(* are exact modulo 2^w as long as magnitudes stay far below 2^(w-1),      *)
(* which the bounds guarantee; comparisons go through ULt, which orders    *)
(* the representatives as the unsigned values they stand for.              *)
(*                                                                         *)
(* Undefined behaviour.  A read through a NULL struct sample_buf pointer   *)
(* is resolved by a choice c in UBChoice: either the read faults (Segv)    *)
(* or it yields the value c.                                               *)
(***************************************************************************)
EXTENDS Integers, Sequences, FiniteSets, TLC

\* ---------------------------------------------------------------- bounds
MaxTaps  == 3      \* largest nr_coeffs tried by init
MaxDecim == 2      \* largest decimation_factor tried by init
MaxLen   == 2      \* largest nr_samples of a pushed sample buffer
MaxBufs  == 3      \* number of distinct sample buffers the producer offers
MaxReq   == 2      \* largest nr_out_samples asked of process

\* ------------------------------------------------------------- constants
NULL       == 0    \* the null struct sample_buf pointer; buffers are 1..MaxBufs
Q_15_SHIFT == 15
Segv       == -1   \* UB resolution: the NULL read faults

A_OK      == "A_OK"
A_E_BUSY  == "A_E_BUSY"
A_E_DONE  == "A_E_DONE"
A_BUG     == "BUG"     \* TSL_BUG_ON / TSL_BUG_IF_FAILED fired, or the process faulted
A_E_BADARGS == "A_E_BADARGS"   \* what TSL_ASSERT_ARG returns for a NULL argument

Impls    == {"scalar", "neon"}
UBChoice == {Segv} \cup (0..MaxLen)

VARIABLES
    impl,       \* which _direct_fir_process_sample the build selected
    fir,        \* struct direct_fir
    bufs,       \* the sample buffers offered so far: <<[nr_samples, accepted]>>, id = index
    decs,       \* per buffer, how many times the filter called sample_buf_decref on it
    retired,    \* sum of nr_samples of the buffers process retired from sb_active
    produced,   \* number of output samples written so far
    last,       \* the last call made and what it returned
    fault,      \* "none", or how the process died: "abort", "segv", "hang"
    ub,         \* some call has executed undefined behaviour and carried on
    cleaned     \* direct_fir_cleanup has run

vars == <<impl, fir, bufs, decs, retired, produced, last, fault, ub, cleaned>>

\* ------------------------------------------------- unsigned (size_t) helpers
ULt(a, b) == IF (a >= 0) = (b >= 0) THEN a < b ELSE b < 0
UGt(a, b) == ULt(b, a)
UGe(a, b) == ~ULt(a, b)
BL_MIN2(a, b) == IF ULt(a, b) THEN a ELSE b

\* ------------------------------------------------------------ fixed point
round_q30_q15(x) == (x + 2^(Q_15_SHIFT - 1)) \div 2^Q_15_SHIFT

cmul_q15_q15(a, b) ==
    << round_q30_q15(a[1] * b[1] - a[2] * b[2]),
       round_q30_q15(a[1] * b[2] + a[2] * b[1]) >>

\* cexp(-j * 2 pi * (f_s/4) / f_s * D) scaled by 2^15 and truncated toward zero:
\* the quarter-rate shift, whose increment lies on an axis.
DerotateIncr(D) ==
    CASE D % 4 = 0 -> << 2^Q_15_SHIFT, 0 >>
      [] D % 4 = 1 -> << 0, -(2^Q_15_SHIFT) >>
      [] D % 4 = 2 -> << -(2^Q_15_SHIFT), 0 >>
      [] OTHER     -> << 0, 2^Q_15_SHIFT >>

\* ------------------------------------------------------------------ init
direct_fir_init(nr_coeffs, decimation_factor, derotate) ==
    [ nr_coeffs       |-> nr_coeffs,
      decimate_factor |-> decimation_factor,
      sb_active       |-> NULL,
      sb_next         |-> NULL,
      sample_offset   |-> 0,
      nr_samples      |-> 0,
      rot_phase       |-> IF derotate THEN << 2^Q_15_SHIFT, 0 >> ELSE << 0, 0 >>,
      rot_phase_incr  |-> IF derotate THEN DerotateIncr(decimation_factor) ELSE << 0, 0 >>,
      rot_counter     |-> 0 ]

\* buf->nr_samples; c resolves the read when buf is NULL
NrSamples(b, c) == IF b = NULL THEN c ELSE bufs[b].nr_samples

\* ------------------------------------------------------------------ push
\* A push that counts the samples of a buffer before finding both slots taken
\* (the nr_samples update hoisted above the slot test).
direct_fir_push_sample_buf_CountsFirst(f, buf, len) ==
    IF f.sb_active = buf \/ f.sb_next = buf
    THEN [ret |-> A_BUG, fir |-> f, fault |-> "abort"]
    ELSE IF f.sb_active = NULL
    THEN [ret |-> A_OK,
          fir |-> [f EXCEPT !.sb_active = buf, !.nr_samples = @ + len],
          fault |-> "none"]
    ELSE IF f.sb_next = NULL
    THEN [ret |-> A_OK,
          fir |-> [f EXCEPT !.sb_next = buf, !.nr_samples = @ + len],
          fault |-> "none"]
    ELSE [ret |-> A_E_BUSY, fir |-> [f EXCEPT !.nr_samples = @ + len], fault |-> "none"]

\* a push that tries the second slot before the first
direct_fir_push_sample_buf_NextFirst(f, buf, len) ==
    IF f.sb_active = buf \/ f.sb_next = buf
    THEN [ret |-> A_BUG, fir |-> f, fault |-> "abort"]
    ELSE IF f.sb_next = NULL
    THEN [ret |-> A_OK,
          fir |-> [f EXCEPT !.sb_next = buf, !.nr_samples = @ + len],
          fault |-> "none"]
    ELSE IF f.sb_active = NULL
    THEN [ret |-> A_OK,
          fir |-> [f EXCEPT !.sb_active = buf, !.nr_samples = @ + len],
          fault |-> "none"]
    ELSE [ret |-> A_E_BUSY, fir |-> f, fault |-> "none"]

\* a push without the checks for a buffer that is already held
direct_fir_push_sample_buf_NoDupCheck(f, buf, len) ==
    IF f.sb_active = NULL
    THEN [ret |-> A_OK,
          fir |-> [f EXCEPT !.sb_active = buf, !.nr_samples = @ + len],
          fault |-> "none"]
    ELSE IF f.sb_next = NULL
    THEN [ret |-> A_OK,
          fir |-> [f EXCEPT !.sb_next = buf, !.nr_samples = @ + len],
          fault |-> "none"]
    ELSE [ret |-> A_E_BUSY, fir |-> f, fault |-> "none"]

\* direct_fir_push_sample_buf; len is buf->nr_samples
direct_fir_push_sample_buf(f, buf, len) ==
    IF f.sb_active = buf \/ f.sb_next = buf
    THEN [ret |-> A_BUG, fir |-> f, fault |-> "abort"]              \* TSL_BUG_ON
    ELSE IF f.sb_active = NULL
    THEN IF f.sb_next # NULL
         THEN [ret |-> A_BUG, fir |-> [f EXCEPT !.sb_active = buf], fault |-> "abort"]
         ELSE [ret |-> A_OK,
               fir |-> [f EXCEPT !.sb_active = buf, !.nr_samples = @ + len],
               fault |-> "none"]
    ELSE IF f.sb_next = NULL
    THEN [ret |-> A_OK,
          fir |-> [f EXCEPT !.sb_next = buf, !.nr_samples = @ + len],
          fault |-> "none"]
    ELSE [ret |-> A_E_BUSY, fir |-> f, fault |-> "none"]

\* ---------------------------------------------------------------- kernel
\* _direct_fir_apply_derotation: the phase steps once per output sample
ApplyDerotation(f) ==
    [f EXCEPT !.rot_phase   = cmul_q15_q15(f.rot_phase, f.rot_phase_incr),
              !.rot_counter = @ + 1]

\* The do { ... } while (coeffs_remain != 0) loop of the kernel.  win collects
\* the reads made so far, in order: which sample of which buffer met which tap.
\* The scalar build checks every index with TSL_BUG_ON; the NEON build loads
\* groups of four samples unchecked and checks only the residual samples.
RECURSIVE SpanLoop(_, _, _, _, _, _, _, _)
SpanLoop(build, f, c, cur_buf, buf_offset, coeffs_remain, win, ub0) ==
    IF cur_buf = NULL /\ c = Segv
    THEN [fault |-> "segv", win |-> win, ub |-> TRUE]
    ELSE
    LET len           == NrSamples(cur_buf, c)
        nr_samples_in == BL_MIN2(len - buf_offset, coeffs_remain)
        start_coeff   == f.nr_coeffs - coeffs_remain
        res_start     == IF build = "neon" THEN (nr_samples_in \div 4) * 4 ELSE 0
        Oob(i)        == UGe(i + buf_offset, len)
        vecOob        == \E i \in 0 .. res_start - 1 : Oob(i)
        bugOn         == \E i \in res_start .. nr_samples_in - 1 :
                             \/ i + start_coeff >= f.nr_coeffs
                             \/ Oob(i)
        reads         == [i \in 1 .. nr_samples_in |->
                             [buf |-> cur_buf,
                              idx |-> buf_offset + i - 1,
                              tap |-> start_coeff + i - 1]]
        remain        == coeffs_remain - nr_samples_in
        ub1           == ub0 \/ cur_buf = NULL \/ vecOob
    IN  IF vecOob /\ c = Segv THEN [fault |-> "segv", win |-> win, ub |-> TRUE]
        ELSE IF bugOn THEN [fault |-> "abort", win |-> win, ub |-> ub1]
        ELSE IF remain = 0 THEN [fault |-> "none", win |-> win \o reads, ub |-> ub1]
        ELSE IF nr_samples_in = 0 /\ cur_buf = f.sb_next /\ buf_offset = 0
        THEN [fault |-> "hang", win |-> win, ub |-> ub1]
        ELSE SpanLoop(build, f, c, f.sb_next, 0, remain, win \o reads, ub1)

\* The cursor advance of the scalar build (lines 394-401): the test is a strict
\* '>', and the new offset subtracts the nr_samples of the buffer that has just
\* been promoted to sb_active, read through the pointer even when it is NULL.
AdvanceScalar(f, c) ==
    LET new_off == f.sample_offset + f.decimate_factor IN
    IF UGt(new_off, NrSamples(f.sb_active, c))
    THEN IF f.sb_active = NULL
         THEN [fir |-> f, released |-> << >>, fault |-> "abort", ub |-> TRUE]  \* decref(NULL) fails
         ELSE IF f.sb_next = NULL /\ c = Segv
         THEN [fir |-> [f EXCEPT !.sb_active = NULL, !.sb_next = NULL],
               released |-> << f.sb_active >>, fault |-> "segv", ub |-> TRUE]
         ELSE [fir |-> [f EXCEPT !.sb_active = f.sb_next, !.sb_next = NULL,
                                 !.sample_offset = new_off - NrSamples(f.sb_next, c)],
               released |-> << f.sb_active >>, fault |-> "none", ub |-> f.sb_next = NULL]
    ELSE [fir |-> [f EXCEPT !.sample_offset = new_off],
          released |-> << >>, fault |-> "none", ub |-> f.sb_active = NULL]

\* A NEON advance with the strict test of the scalar build.
AdvanceNeon_StrictTest(f, c) ==
    LET new_off        == f.sample_offset + f.decimate_factor
        cur_nr_samples == NrSamples(f.sb_active, c) IN
    IF UGt(new_off, cur_nr_samples)
    THEN [fir |-> [f EXCEPT !.sb_active = f.sb_next, !.sb_next = NULL,
                            !.sample_offset = new_off - cur_nr_samples],
          released |-> << f.sb_active >>, fault |-> "none", ub |-> FALSE]
    ELSE [fir |-> [f EXCEPT !.sample_offset = new_off],
          released |-> << >>, fault |-> "none", ub |-> FALSE]

\* A NEON advance that promotes next without clearing the next slot.
AdvanceNeon_NextNotCleared(f, c) ==
    LET new_off        == f.sample_offset + f.decimate_factor
        cur_nr_samples == NrSamples(f.sb_active, c) IN
    IF UGe(new_off, cur_nr_samples)
    THEN [fir |-> [f EXCEPT !.sb_active = f.sb_next,
                            !.sample_offset = new_off - cur_nr_samples],
          released |-> << f.sb_active >>, fault |-> "none", ub |-> FALSE]
    ELSE [fir |-> [f EXCEPT !.sample_offset = new_off],
          released |-> << >>, fault |-> "none", ub |-> FALSE]

\* The cursor advance of the NEON build (lines 298-308): the test is '>=' and
\* the retired buffer's nr_samples is saved before the slots move.
AdvanceNeon(f, c) ==
    LET new_off        == f.sample_offset + f.decimate_factor
        cur_nr_samples == NrSamples(f.sb_active, c) IN
    IF UGe(new_off, cur_nr_samples)
    THEN [fir |-> [f EXCEPT !.sb_active = f.sb_next, !.sb_next = NULL,
                            !.sample_offset = new_off - cur_nr_samples],
          released |-> << f.sb_active >>, fault |-> "none", ub |-> FALSE]
    ELSE [fir |-> [f EXCEPT !.sample_offset = new_off],
          released |-> << >>, fault |-> "none", ub |-> FALSE]

Advance(build, f, c) == IF build = "neon" THEN AdvanceNeon(f, c) ELSE AdvanceScalar(f, c)

\* The "enough samples available" test both builds make before the loop
Exhausted(f, c) ==
    /\ UGt(f.sample_offset + f.nr_coeffs, NrSamples(f.sb_active, c))
    /\ f.sb_next = NULL

KernelFault(f, how, undef) ==
    [ret |-> A_BUG, fir |-> f, win |-> << >>, released |-> << >>,
     rot |-> f.rot_phase, fault |-> how, ub |-> undef]

\* a kernel whose Exhausted exit passes through the counter update
ProcessSample_DoneCounts(build, f, c) ==
    IF build = "neon" /\ f.sb_active = NULL THEN KernelFault(f, "abort", FALSE)  \* TSL_BUG_ON
    ELSE IF f.sb_active = NULL /\ c = Segv THEN KernelFault(f, "segv", TRUE)
    ELSE IF Exhausted(f, c)
    THEN [ret |-> A_E_DONE,
          fir |-> [f EXCEPT !.nr_samples = @ - f.decimate_factor],
          win |-> << >>, released |-> << >>,
          rot |-> f.rot_phase, fault |-> "none", ub |-> f.sb_active = NULL]
    ELSE
    LET sp == SpanLoop(build, f, c, f.sb_active, f.sample_offset, f.nr_coeffs, << >>,
                       f.sb_active = NULL) IN
    IF sp.fault # "none" THEN KernelFault(f, sp.fault, sp.ub)
    ELSE
    LET adv == Advance(build, f, c) IN
    IF adv.fault # "none"
    THEN [ret |-> A_BUG, fir |-> adv.fir, win |-> sp.win, released |-> adv.released,
          rot |-> f.rot_phase, fault |-> adv.fault, ub |-> TRUE]
    ELSE
    LET g == [adv.fir EXCEPT !.nr_samples = @ - f.decimate_factor] IN
    [ret      |-> A_OK,
     fir      |-> IF f.rot_phase_incr = << 0, 0 >> THEN g ELSE ApplyDerotation(g),
     win      |-> sp.win,
     released |-> adv.released,
     rot      |-> f.rot_phase,
     fault    |-> "none",
     ub       |-> sp.ub \/ adv.ub]

\* _direct_fir_process_sample: one output attempt
ProcessSample(build, f, c) ==
    IF build = "neon" /\ f.sb_active = NULL THEN KernelFault(f, "abort", FALSE)  \* TSL_BUG_ON
    ELSE IF f.sb_active = NULL /\ c = Segv THEN KernelFault(f, "segv", TRUE)
    ELSE IF Exhausted(f, c)
    THEN [ret |-> A_E_DONE, fir |-> f, win |-> << >>, released |-> << >>,
          rot |-> f.rot_phase, fault |-> "none", ub |-> f.sb_active = NULL]
    ELSE
    LET sp == SpanLoop(build, f, c, f.sb_active, f.sample_offset, f.nr_coeffs, << >>,
                       f.sb_active = NULL) IN
    IF sp.fault # "none" THEN KernelFault(f, sp.fault, sp.ub)
    ELSE
    LET adv == Advance(build, f, c) IN
    IF adv.fault # "none"
    THEN [ret |-> A_BUG, fir |-> adv.fir, win |-> sp.win, released |-> adv.released,
          rot |-> f.rot_phase, fault |-> adv.fault, ub |-> TRUE]
    ELSE
    LET g == [adv.fir EXCEPT !.nr_samples = @ - f.decimate_factor] IN
    [ret      |-> A_OK,
     fir      |-> IF f.rot_phase_incr = << 0, 0 >> THEN g ELSE ApplyDerotation(g),
     win      |-> sp.win,
     released |-> adv.released,
     rot      |-> f.rot_phase,
     fault    |-> "none",
     ub       |-> sp.ub \/ adv.ub]

\* --------------------------------------------------------------- process
KernelCall(f, r) ==
    [pre |-> f, ret |-> r.ret, win |-> r.win, released |-> r.released,
     rot |-> r.rot, post |-> r.fir, ub |-> r.ub]

\* the for loop of direct_fir_process, from iteration i
RECURSIVE ProcessLoop(_, _, _, _, _, _)
ProcessLoop(build, f, c, i, nr_out_samples, calls) ==
    IF i = nr_out_samples
    THEN [fir |-> f, gen |-> nr_out_samples, calls |-> calls, fault |-> "none"]
    ELSE
    LET r == ProcessSample(build, f, c) IN
    IF r.fault # "none" \/ r.ret = A_E_DONE
    THEN [fir |-> r.fir, gen |-> i, calls |-> Append(calls, KernelCall(f, r)),
          fault |-> r.fault]
    ELSE ProcessLoop(build, r.fir, c, i + 1, nr_out_samples, Append(calls, KernelCall(f, r)))

\* some kernel call of the process call r executed undefined behaviour
ExecutedUB(r) == \E k \in 1 .. Len(r.calls) : r.calls[k].ub

direct_fir_process(build, f, nr_out_samples, c) ==
    IF f.sb_active = NULL /\ f.sb_next = NULL
    THEN [fir |-> f, gen |-> 0, calls |-> << >>, fault |-> "none"]
    ELSE ProcessLoop(build, f, c, 0, nr_out_samples, << >>)

\* Every way a process call can go.  The resolution of undefined behaviour
\* matters only to a call that executes some: a call that runs clean under
\* one resolution runs the same under all.
ProcessOutcomes(build, f, nr_out_samples) ==
    LET r0 == direct_fir_process(build, f, nr_out_samples, Segv) IN
    IF ~ExecutedUB(r0) THEN {r0}
    ELSE {direct_fir_process(build, f, nr_out_samples, c) : c \in UBChoice}

\* ----------------------------------------------------- readiness predicates
\* unsigned division; a wrapped dividend gives a quotient near 2^w / b, which is
\* reported as wrapped with the dividend's representative
SizeDiv(a, b) ==
    IF a >= 0 THEN [wrapped |-> FALSE, q |-> a \div b] ELSE [wrapped |-> TRUE, q |-> a]

direct_fir_can_process(f) ==
    [can |-> UGe(f.nr_samples, f.nr_coeffs), est |-> SizeDiv(f.nr_samples, f.nr_coeffs)]

\* a full that looks at the active slot
direct_fir_full_ChecksActive(f) == f.sb_active # NULL

direct_fir_full(f) == f.sb_next # NULL

\* --------------------------------------------------------------- cleanup
direct_fir_cleanup(f) ==
    [fir      |-> [f EXCEPT !.sb_active = NULL, !.sb_next = NULL, !.decimate_factor = 0],
     released |-> (IF f.sb_active # NULL THEN << f.sb_active >> ELSE << >>)
                  \o (IF f.sb_next # NULL THEN << f.sb_next >> ELSE << >>)]

\* ------------------------------------------------------ the state machine
NoCall ==
    [op |-> "init", buf |-> NULL, n |-> 0, ret |-> A_OK, gen |-> 0, calls |-> << >>,
     can |-> FALSE, est |-> SizeDiv(0, 1), full |-> FALSE]

\* how many times buffer b occurs in the sequence of released buffers
RECURSIVE Occurrences(_, _)
Occurrences(seq, b) ==
    IF seq = << >> THEN 0
    ELSE (IF Head(seq) = b THEN 1 ELSE 0) + Occurrences(Tail(seq), b)

RECURSIVE SumNrSamples(_)
SumNrSamples(seq) ==
    IF seq = << >> THEN 0
    ELSE bufs[Head(seq)].nr_samples + SumNrSamples(Tail(seq))

\* sample_buf_decref applied to every buffer of released, in order
Decref(d, released) == [b \in DOMAIN d |-> d[b] + Occurrences(released, b)]

Running == fault = "none" /\ ~cleaned

\* a call has returned and every call so far had defined behaviour
Returned == Running /\ ~ub

Init ==
    /\ impl \in Impls
    /\ \E nr_coeffs \in 1 .. MaxTaps, decimation_factor \in 1 .. MaxDecim,
          derotate \in BOOLEAN :
          fir = direct_fir_init(nr_coeffs, decimation_factor, derotate)
    /\ bufs = << >>
    /\ decs = << >>
    /\ retired = 0
    /\ produced = 0
    /\ last = NoCall
    /\ fault = "none"
    /\ ub = FALSE
    /\ cleaned = FALSE

\* push of a buffer the producer has not offered before
PushNew ==
    /\ Running
    /\ Len(bufs) < MaxBufs
    /\ \E len \in 1 .. MaxLen :
          LET buf == Len(bufs) + 1
              r   == direct_fir_push_sample_buf(fir, buf, len) IN
          /\ fir' = r.fir
          /\ bufs' = Append(bufs, [nr_samples |-> len, accepted |-> r.ret = A_OK])
          /\ decs' = Append(decs, 0)
          /\ last' = [NoCall EXCEPT !.op = "push", !.buf = buf, !.ret = r.ret]
          /\ fault' = r.fault
    /\ UNCHANGED <<impl, retired, produced, ub, cleaned>>

\* push of the buffer that was last rejected with Busy: the producer kept its
\* reference and offers the same buffer again
PushRetry ==
    /\ Running
    /\ bufs # << >>
    /\ ~bufs[Len(bufs)].accepted
    /\ LET buf == Len(bufs)
           r   == direct_fir_push_sample_buf(fir, buf, bufs[buf].nr_samples) IN
          /\ fir' = r.fir
          /\ bufs' = [bufs EXCEPT ![buf].accepted = (r.ret = A_OK)]
          /\ last' = [NoCall EXCEPT !.op = "push", !.buf = buf, !.ret = r.ret]
          /\ fault' = r.fault
    /\ UNCHANGED <<impl, decs, retired, produced, ub, cleaned>>

\* push of a buffer the filter already holds in one of its slots
PushHeld ==
    /\ Running
    /\ \E buf \in {fir.sb_active, fir.sb_next} \ {NULL} :
          LET r == direct_fir_push_sample_buf(fir, buf, bufs[buf].nr_samples) IN
          /\ fir' = r.fir
          /\ last' = [NoCall EXCEPT !.op = "push", !.buf = buf, !.ret = r.ret]
          /\ fault' = r.fault
    /\ UNCHANGED <<impl, bufs, decs, retired, produced, ub, cleaned>>

Process ==
    /\ Running
    /\ \E n \in 1 .. MaxReq : \E r \in ProcessOutcomes(impl, fir, n) :
          LET released == IF r.calls = << >> THEN << >>
                          ELSE LET Rel[k \in 0 .. Len(r.calls)] ==
                                       IF k = 0 THEN << >>
                                       ELSE Rel[k - 1] \o r.calls[k].released
                               IN  Rel[Len(r.calls)] IN
          /\ fir' = r.fir
          /\ decs' = Decref(decs, released)
          /\ retired' = retired + SumNrSamples(released)
          /\ produced' = produced + r.gen
          /\ last' = [NoCall EXCEPT !.op = "process", !.n = n, !.gen = r.gen,
                                    !.calls = r.calls,
                                    !.ret = IF r.fault = "none" THEN A_OK ELSE A_BUG]
          /\ fault' = r.fault
          /\ ub' = (ub \/ ExecutedUB(r))
    /\ UNCHANGED <<impl, bufs, cleaned>>

CanProcess ==
    /\ Running
    /\ LET r == direct_fir_can_process(fir) IN
          last' = [NoCall EXCEPT !.op = "can_process", !.can = r.can, !.est = r.est]
    /\ UNCHANGED <<impl, fir, bufs, decs, retired, produced, fault, ub, cleaned>>

Full ==
    /\ Running
    /\ last' = [NoCall EXCEPT !.op = "full", !.full = direct_fir_full(fir)]
    /\ UNCHANGED <<impl, fir, bufs, decs, retired, produced, fault, ub, cleaned>>

Cleanup ==
    /\ Running
    /\ LET r == direct_fir_cleanup(fir) IN
          /\ fir' = r.fir
          /\ decs' = Decref(decs, r.released)
    /\ last' = [NoCall EXCEPT !.op = "cleanup"]
    /\ cleaned' = TRUE
    /\ UNCHANGED <<impl, bufs, retired, produced, fault, ub>>

Next ==
    \/ PushNew
    \/ PushRetry
    \/ PushHeld
    \/ Process
    \/ CanProcess
    \/ Full
    \/ Cleanup

Spec == Init /\ [][Next]_vars

\* ------------------------------------------------- vocabulary of the claims
Held(f) == {f.sb_active, f.sb_next} \ {NULL}

\* the residual sample count of the two slots
Residual(f) ==
    (IF f.sb_active # NULL THEN bufs[f.sb_active].nr_samples - f.sample_offset ELSE 0)
    + (IF f.sb_next # NULL THEN bufs[f.sb_next].nr_samples ELSE 0)

\* position, in the concatenation of the accepted buffers in push order, of
\* sample 0 of buffer b
RECURSIVE StartOf(_)
StartOf(b) ==
    IF b <= 1 THEN 0
    ELSE StartOf(b - 1) + (IF bufs[b - 1].accepted THEN bufs[b - 1].nr_samples ELSE 0)

\* the kernel calls of the last process call, when it was one
KernelCalls == IF last.op = "process" THEN last.calls ELSE << >>

\* C1: no input sample is dropped or re-read other than by decimation: after
\* every call that returns, the stream position of the cursor (the lengths of
\* the buffers retired from active, plus sample_offset) is D times the number
\* of outputs produced, and the k-th output's window starts at position k * D
\* of the concatenation of the pushed buffers.
C1_StreamPosition ==
    Returned =>
        /\ retired + fir.sample_offset = fir.decimate_factor * produced
        /\ \A j \in 1 .. Len(KernelCalls) :
              LET call == KernelCalls[j] IN
              call.ret = A_OK /\ call.win[1].buf # NULL =>
                  StartOf(call.win[1].buf) + call.win[1].idx
                      = fir.decimate_factor * (produced - last.gen + j - 1)

\* C2: after every return from init, push and process, nr_samples is the true
\* residual sample count of the two slots and has not gone below zero.
C2_QueueCounter ==
    Returned => fir.nr_samples = Residual(fir) /\ fir.nr_samples >= 0

\* C3: after every return from push and process, whenever active holds a
\* buffer, 0 <= sample_offset < active.nr_samples.
C3_CursorInsideActive ==
    Returned /\ fir.sb_active # NULL =>
        /\ fir.sample_offset >= 0
        /\ ULt(fir.sample_offset, bufs[fir.sb_active].nr_samples)

\* C4: a kernel call made with fewer than N samples left across both slots
\* produces no output and reports Exhausted, and no kernel call reads the same
\* sample twice to fill its window.
C4_ExhaustedWhenShort ==
    \A j \in 1 .. Len(KernelCalls) :
        LET call == KernelCalls[j] IN
        call.pre.sb_active # NULL /\ ~call.ub =>
            /\ Residual(call.pre) < call.pre.nr_coeffs => call.ret = A_E_DONE
            /\ \A x, y \in 1 .. Len(call.win) :
                  x # y => <<call.win[x].buf, call.win[x].idx>>
                               # <<call.win[y].buf, call.win[y].idx>>

\* C5: can_process reports can = (nr_samples >= N) and est = nr_samples / N,
\* and can is true exactly when an immediately following process(1) writes one
\* sample.
C5_CanProcessExact ==
    [][ /\ last'.op = "can_process" =>
              /\ last'.can = UGe(fir.nr_samples, fir.nr_coeffs)
              /\ last'.est = SizeDiv(fir.nr_samples, fir.nr_coeffs)
        /\ last.op = "can_process" /\ last'.op = "process" /\ last'.n = 1 /\ ~ub' =>
              (last.can <=> last'.gen = 1) ]_vars

\* C6: every accepted buffer is decremented by the filter exactly once, when
\* process retires it from active or by cleanup, and never twice; a buffer
\* rejected with Busy is never decremented; after cleanup both slots are empty.
C6_DecrefExactlyOnce ==
    /\ \A b \in DOMAIN bufs :
          /\ decs[b] <= 1
          /\ ~bufs[b].accepted => decs[b] = 0 /\ b \notin Held(fir)
          /\ fault = "none" /\ bufs[b].accepted =>
                (decs[b] = 0 <=> b \in Held(fir))
    /\ cleaned => fir.sb_active = NULL /\ fir.sb_next = NULL

\* C6's case: after cleanup, one buffer was released by process, another by
\* cleanup, and a third had been rejected with Busy.
C6_Witness ==
    /\ cleaned
    /\ retired > 0
    /\ \E a, b, r \in DOMAIN bufs :
          /\ a # b
          /\ bufs[a].accepted /\ bufs[b].accepted /\ ~bufs[r].accepted
          /\ decs[a] = 1 /\ decs[b] = 1 /\ decs[r] = 0
          /\ retired = bufs[a].nr_samples

\* C7: push of a buffer the filter does not hold, made while active and next
\* are both occupied, returns Busy and changes nothing: the slots, the cursor,
\* nr_samples, the derotator phase and every reference count keep their values
\* and the rejected buffer is in neither slot.
C7_BusyLeavesStateUnchanged ==
    [][ ( /\ last'.op = "push"
          /\ fir.sb_active # NULL /\ fir.sb_next # NULL
          /\ last'.buf \notin Held(fir) )
        => ( /\ last'.ret = A_E_BUSY
             /\ fir' = fir
             /\ \A b \in DOMAIN decs : decs'[b] = decs[b]
             /\ fault' = "none"
             /\ last'.buf \notin Held(fir') ) ]_vars

\* C7's case: a push has just been rejected with Busy by a filter that had
\* produced output with derotation running.
C7_Witness ==
    /\ last.op = "push" /\ last.ret = A_E_BUSY
    /\ fir.sb_active # NULL /\ fir.sb_next # NULL
    /\ fir.sample_offset > 0
    /\ fir.rot_counter > 0

\* C8: back-pressure is released as soon as the active buffer is drained: once
\* the cursor has advanced to or past the end of the buffer in active, a push
\* of a buffer the filter does not hold is not rejected with Busy.
C8_PushAfterDrainSucceeds ==
    [][ ( /\ last'.op = "push"
          /\ ~ub
          /\ last'.buf \notin Held(fir)
          /\ fir.sb_active # NULL
          /\ UGe(fir.sample_offset, bufs[fir.sb_active].nr_samples) )
        => ( /\ last'.ret = A_OK
             /\ fir'.sb_next = last'.buf ) ]_vars

\* C9: a kernel call that produces an output with
\* sample_offset + D >= active.nr_samples releases active, promotes next,
\* clears next and sets sample_offset to (old sample_offset + D) minus the
\* retired buffer's nr_samples, all in that same call.
C9_RetireInSameCall ==
    \A j \in 1 .. Len(KernelCalls) :
        LET call    == KernelCalls[j]
            pre     == call.pre
            new_off == pre.sample_offset + pre.decimate_factor IN
        ( /\ call.ret = A_OK /\ ~call.ub
          /\ pre.sb_active # NULL
          /\ UGe(new_off, bufs[pre.sb_active].nr_samples) )
        => ( /\ call.released = << pre.sb_active >>
             /\ call.post.sb_active = pre.sb_next
             /\ call.post.sb_next = NULL
             /\ call.post.sample_offset = new_off - bufs[pre.sb_active].nr_samples )

\* what a caller observes of one or more process calls: the samples written
\* (each the window it was computed from and the phase it was rotated by), the
\* total count, the filter left behind and whether the process survived
Observed(r) ==
    [outs  |-> [k \in 1 .. r.gen |-> [win |-> r.calls[k].win, rot |-> r.calls[k].rot]],
     gen   |-> r.gen,
     fir   |-> r.fir,
     fault |-> r.fault]

\* process(a) followed by process(b), from filter state f
Chunked(f, a, b, c) ==
    LET r1 == direct_fir_process(impl, f, a, c) IN
    IF r1.fault # "none" THEN [obs |-> Observed(r1), ub |-> ExecutedUB(r1)]
    ELSE LET r2 == direct_fir_process(impl, r1.fir, b, c)
             o1 == Observed(r1)
             o2 == Observed(r2) IN
         [obs |-> [outs  |-> o1.outs \o o2.outs,
                   gen   |-> o1.gen + o2.gen,
                   fir   |-> o2.fir,
                   fault |-> o2.fault],
          ub  |-> ExecutedUB(r1) \/ ExecutedUB(r2)]

\* C10: the output does not depend on how process calls are chunked: from any
\* reachable filter state, process(a) then process(b) writes the same samples,
\* reports the same total and leaves the same filter state as process(a + b).
C10_ChunkingIndependent ==
    Returned =>
        \A a, b \in 1 .. MaxReq, c \in UBChoice :
            LET single == direct_fir_process(impl, fir, a + b, c)
                split  == Chunked(fir, a, b, c) IN
            ~ExecutedUB(single) /\ ~split.ub => split.obs = Observed(single)

\* ------------------------------------- the two builds driven in lockstep
\* Under SpecEq the variables hold one value per build: fir, decs, last and
\* fault are records with a field for the scalar and a field for the NEON
\* build, and impl is "both".  The same buffers are pushed to both and the same
\* process calls are made of both, for as long as the two agree.
Builds == [scalar |-> "scalar", neon |-> "neon"]

\* what a caller can tell the two builds apart by
EqAgree ==
    /\ fir.scalar = fir.neon
    /\ decs.scalar = decs.neon
    /\ last.scalar.ret = last.neon.ret
    /\ last.scalar.gen = last.neon.gen
    /\ fault.scalar = fault.neon

EqRunning == fault.scalar = "none" /\ fault.neon = "none" /\ EqAgree

EqInit ==
    /\ impl = "both"
    /\ \E nr_coeffs \in 1 .. MaxTaps, decimation_factor \in 1 .. MaxDecim,
          derotate \in BOOLEAN :
          LET f == direct_fir_init(nr_coeffs, decimation_factor, derotate) IN
          fir = [scalar |-> f, neon |-> f]
    /\ bufs = << >>
    /\ decs = [scalar |-> << >>, neon |-> << >>]
    /\ retired = 0
    /\ produced = 0
    /\ last = [scalar |-> NoCall, neon |-> NoCall]
    /\ fault = [scalar |-> "none", neon |-> "none"]
    /\ ub = FALSE
    /\ cleaned = FALSE

EqPush ==
    /\ EqRunning
    /\ Len(bufs) < MaxBufs
    /\ \E len \in 1 .. MaxLen :
          LET buf == Len(bufs) + 1
              rs  == direct_fir_push_sample_buf(fir.scalar, buf, len)
              rn  == direct_fir_push_sample_buf(fir.neon, buf, len) IN
          /\ fir' = [scalar |-> rs.fir, neon |-> rn.fir]
          /\ bufs' = Append(bufs, [nr_samples |-> len, accepted |-> rs.ret = A_OK])
          /\ decs' = [scalar |-> Append(decs.scalar, 0), neon |-> Append(decs.neon, 0)]
          /\ last' = [scalar |-> [NoCall EXCEPT !.op = "push", !.buf = buf, !.ret = rs.ret],
                      neon   |-> [NoCall EXCEPT !.op = "push", !.buf = buf, !.ret = rn.ret]]
          /\ fault' = [scalar |-> rs.fault, neon |-> rn.fault]
    /\ UNCHANGED <<impl, retired, produced, ub, cleaned>>

\* the buffers the kernel calls of the process call r released, in order
RECURSIVE ReleasedBy(_, _)
ReleasedBy(calls, k) ==
    IF k = 0 THEN << >> ELSE ReleasedBy(calls, k - 1) \o calls[k].released

EqProcess ==
    /\ EqRunning
    /\ \E n \in 1 .. MaxReq :
       \E rs \in ProcessOutcomes(Builds.scalar, fir.scalar, n),
          rn \in ProcessOutcomes(Builds.neon, fir.neon, n) :
          LET Called(r) == [NoCall EXCEPT !.op = "process", !.n = n, !.gen = r.gen,
                                          !.calls = r.calls,
                                          !.ret = IF r.fault = "none" THEN A_OK ELSE A_BUG] IN
          /\ fir' = [scalar |-> rs.fir, neon |-> rn.fir]
          /\ decs' = [scalar |-> Decref(decs.scalar, ReleasedBy(rs.calls, Len(rs.calls))),
                      neon   |-> Decref(decs.neon, ReleasedBy(rn.calls, Len(rn.calls)))]
          /\ last' = [scalar |-> Called(rs), neon |-> Called(rn)]
          /\ fault' = [scalar |-> rs.fault, neon |-> rn.fault]
          /\ ub' = (ub \/ ExecutedUB(rs) \/ ExecutedUB(rn))
    /\ UNCHANGED <<impl, bufs, retired, produced, cleaned>>

EqNext ==
    \/ EqPush
    \/ EqProcess

SpecEq == EqInit /\ [][EqNext]_vars

\* C11: the NEON kernel and the scalar kernel, started from the same state and
\* driven by the same push and process calls with the same buffers, are in the
\* same state (slots, sample_offset, nr_samples, buffers released) after every
\* call and return the same result and output count from every call.
C11_BuildsAgree ==
    ~ub => EqAgree

\* C12: in every reachable state (after init, every push, every process and
\* cleanup) the next slot is occupied only if the active slot is occupied, and
\* the two slots never hold the same buffer.
C12_SlotsOrdered ==
    /\ fir.sb_next # NULL => fir.sb_active # NULL
    /\ fir.sb_active # NULL => fir.sb_active # fir.sb_next

\* the second buffer has been promoted into the active slot and a third one
\* queued behind it
C12_Witness ==
    /\ Returned
    /\ retired > 0
    /\ fir.sb_active # NULL
    /\ fir.sb_next # NULL
    /\ fir.sb_active # fir.sb_next

\* C13: when init, a push or a process call has returned, an empty active slot
\* implies an empty next slot, sample_offset = 0 and nr_samples = 0; in
\* particular after a process call that retired the last queued buffer.
C13_EmptyMeansReset ==
    Returned /\ fir.sb_active = NULL =>
        /\ fir.sb_next = NULL
        /\ fir.sample_offset = 0
        /\ fir.nr_samples = 0

\* C14 as stated: a push of a buffer that is already held in the active or the
\* next slot fails with the invalid-argument error value returned to the
\* caller, and leaves the filter state unchanged.
C14_HeldPushReturnsBadArgs ==
    [][last'.op = "push" /\ last'.buf \in Held(fir) =>
          /\ fault' = "none"
          /\ last'.ret = A_E_BADARGS
          /\ fir' = fir]_vars

\* C14: a push of a buffer that is already held in the active or the next slot
\* is trapped by TSL_BUG_ON before anything is written: the call does not
\* return to the caller, no error value is delivered, no slot, cursor, counter
\* or reference count has changed when the process stops.
C14_HeldPushTraps ==
    [][last'.op = "push" /\ last'.buf \in Held(fir) =>
          /\ fault' = "abort"
          /\ last'.ret = A_BUG
          /\ fir' = fir
          /\ decs' = decs]_vars

\* the buffer queued in the next slot was pushed again
C14_Witness ==
    /\ last.op = "push"
    /\ last.buf # NULL
    /\ last.buf = fir.sb_next
    /\ fir.sb_active # NULL
    /\ fault = "abort"

\* C15: a process call with n >= 1 made while both slots are empty returns
\* success with zero samples generated and changes nothing; and every process
\* call returns success with a generated count in 0 .. n that is the number of
\* kernel calls that succeeded before the first Exhausted result.
C15_ProcessAlwaysSucceeds ==
    [][~ub /\ ~ub' /\ last'.op = "process" =>
          /\ fault' = "none"
          /\ last'.ret = A_OK
          /\ last'.gen \in 0 .. last'.n
          /\ last'.gen = Cardinality({k \in 1 .. Len(last'.calls) :
                                          last'.calls[k].ret = A_OK})
          /\ \A k \in 1 .. Len(last'.calls) :
                 last'.calls[k].ret = A_E_DONE => k = Len(last'.calls)
          /\ (fir.sb_active = NULL /\ fir.sb_next = NULL =>
                 /\ last'.gen = 0
                 /\ fir' = fir
                 /\ decs' = decs)]_vars

\* -------------------------------------------------------- sample arithmetic
\* The taps and the sample data are inputs that no operation changes: every tap
\* is 0.5 in Q.15, and sample i of buffer b is the real number 2, 4, 6, 8, ...
\* counted through buffers of two samples.
fir_coeff(k) == << 2^(Q_15_SHIFT - 1), 0 >>

data_buf(b, i) == << 2 * (2 * (b - 1) + i + 1), 0 >>

\* cmul_q15_q30: the Q.30 product of a tap c and a sample s
cmul_q15_q30(c, s) ==
    << c[1] * s[1] - c[2] * s[2], c[1] * s[2] + c[2] * s[1] >>

\* the accumulators after the first k reads of the window win
RECURSIVE Accumulate(_, _)
Accumulate(win, k) ==
    IF k = 0 THEN << 0, 0 >>
    ELSE LET acc == Accumulate(win, k - 1)
             f   == cmul_q15_q30(fir_coeff(win[k].tap), data_buf(win[k].buf, win[k].idx))
         IN  << acc[1] + f[1], acc[2] + f[2] >>

\* the sample a kernel call writes when derotation is off
FilterOutput(win) ==
    LET acc == Accumulate(win, Len(win)) IN
    << round_q30_q15(acc[1]), round_q30_q15(acc[2]) >>

\* the samples of buffer b from index from on
RemainingOf(b, from) ==
    IF b = NULL \/ from < 0 \/ from >= bufs[b].nr_samples THEN << >>
    ELSE [j \in 1 .. bufs[b].nr_samples - from |-> [buf |-> b, idx |-> from + j - 1]]

\* the input stream ahead of the cursor of f: the rest of the active buffer,
\* then the next buffer from its first sample
StreamAhead(f) == RemainingOf(f.sb_active, f.sample_offset) \o RemainingOf(f.sb_next, 0)

\* the rounded sum of tap k times stream sample k, over the N taps
RECURSIVE TapSum(_, _)
TapSum(x, k) ==
    IF k = 0 THEN << 0, 0 >>
    ELSE LET acc == TapSum(x, k - 1)
             f   == cmul_q15_q30(fir_coeff(k - 1), data_buf(x[k].buf, x[k].idx))
         IN  << acc[1] + f[1], acc[2] + f[2] >>

\* C16: with derotation off, each output is the rounded sum over k in 0 .. N-1
\* of taps[k] * x[k], where x is the rest of the active buffer from
\* sample_offset followed by the next buffer from index 0; tap k is paired with
\* sample k of x, every tap is used exactly once, every index read lies inside
\* its buffer and the in-loop bounds assertions never fire.  For taps
\* (0.5, 0.5), D = 1, A = [2, 4], B = [6, 8] the outputs are 3, 5, 7.
C16_OutputIsTapSum ==
    LET InExample ==
            /\ fir.nr_coeffs = 2
            /\ fir.decimate_factor = 1
            /\ Len(bufs) = 2
            /\ \A b \in 1 .. 2 : bufs[b].nr_samples = 2 /\ bufs[b].accepted
            /\ produced <= 3
        ExampleOutputs == << << 3, 0 >>, << 5, 0 >>, << 7, 0 >> >>
    IN
    ~ub /\ ~cleaned /\ last.op = "process" =>
        \A j \in 1 .. Len(last.calls) :
            LET call == last.calls[j]
                N    == call.pre.nr_coeffs
                x    == StreamAhead(call.pre) IN
            call.pre.rot_phase_incr = << 0, 0 >> =>
                /\ call.pre.sb_active # NULL => call.ret # A_BUG
                /\ call.ret = A_OK =>
                      /\ Len(x) >= N
                      /\ Len(call.win) = N
                      /\ \A k \in 1 .. N :
                             /\ call.win[k] = [buf |-> x[k].buf, idx |-> x[k].idx,
                                               tap |-> k - 1]
                             /\ call.win[k].idx \in 0 .. bufs[call.win[k].buf].nr_samples - 1
                      /\ FilterOutput(call.win) =
                             LET acc == TapSum(x, N) IN
                             << round_q30_q15(acc[1]), round_q30_q15(acc[2]) >>
                      /\ InExample =>
                             FilterOutput(call.win) =
                                 ExampleOutputs[produced - last.gen + j]

\* C17: a kernel call that reports Exhausted mutates nothing (active, next,
\* sample_offset, nr_samples, phase, reference counts), so a process call that
\* generates zero samples leaves the filter exactly as it was entered.
C17_ExhaustedMutatesNothing ==
    [][last'.op = "process" =>
          /\ \A k \in 1 .. Len(last'.calls) :
                 last'.calls[k].ret = A_E_DONE =>
                     /\ last'.calls[k].post = last'.calls[k].pre
                     /\ last'.calls[k].released = << >>
          /\ (fault' = "none" /\ last'.gen = 0 =>
                 /\ fir' = fir
                 /\ decs' = decs)]_vars

\* a process call on a partly consumed buffer found the window short
C17_Witness ==
    /\ Returned
    /\ last.op = "process"
    /\ last.gen = 0
    /\ Len(last.calls) = 1
    /\ last.calls[1].ret = A_E_DONE
    /\ fir.sb_active # NULL
    /\ fir.sample_offset > 0

\* The decimation scenario: N = 2, D = 2, A (buffer 1) and B (buffer 2) of two
\* samples each queued, and the first process call asked for two outputs.
DecimationScenario ==
    /\ fir.nr_coeffs = 2
    /\ fir.decimate_factor = 2
    /\ Len(bufs) >= 2
    /\ \A b \in 1 .. 2 : bufs[b].nr_samples = 2 /\ bufs[b].accepted
    /\ last.op = "process"
    /\ last.n = 2
    /\ produced = last.gen
    /\ Len(last.calls) >= 1
    /\ last.calls[1].pre.sb_active = 1
    /\ last.calls[1].pre.sb_next = 2
    /\ last.calls[1].pre.sample_offset = 0

\* C18 as stated: in the decimation scenario two outputs are produced and A's
\* reference is released exactly once, in the kernel call that produces the
\* second output and not in the one that produces the first.
C18_ReleasedWithSecondOutput ==
    DecimationScenario =>
        /\ last.gen = 2
        /\ Len(last.calls) = 2
        /\ decs[1] = 1
        /\ last.calls[1].released = << >>
        /\ last.calls[2].released = << 1 >>

\* C18: in the decimation scenario two outputs are produced and A's reference
\* is released exactly once during the process call: by the kernel call that
\* produces the first output in the NEON build (0 + 2 >= 2), and by the one
\* that produces the second output in the scalar build (0 + 2 > 2 is false).
C18_ReleasedOncePerBuild ==
    DecimationScenario =>
        /\ last.gen = 2
        /\ Len(last.calls) = 2
        /\ decs[1] = 1
        /\ last.calls[1].ret = A_OK /\ last.calls[2].ret = A_OK
        /\ impl = "neon" =>
               /\ last.calls[1].released = << 1 >>
               /\ \A k \in 1 .. Len(last.calls[2].released) :
                      last.calls[2].released[k] # 1
        /\ impl = "scalar" =>
               /\ last.calls[1].released = << >>
               /\ last.calls[2].released = << 1 >>

C18_Witness ==
    /\ DecimationScenario
    /\ impl = "neon"
    /\ fault = "none"
    /\ last.gen = 2
    /\ decs[1] = 1

\* C19: for any sequence of pushes and process calls no step reads a field of
\* an absent buffer: the kernel is never entered with the active slot empty,
\* the second span is entered only when next is present, and an advance that
\* retires the active buffer while next is absent does not read nr_samples of
\* the promoted (absent) buffer.
C19_NoAbsentBufferRead ==
    [][~ub /\ last'.op = "process" =>
          \A k \in 1 .. Len(last'.calls) :
              /\ last'.calls[k].pre.sb_active # NULL
              /\ ~last'.calls[k].ub
              /\ \A i \in 1 .. Len(last'.calls[k].win) :
                     last'.calls[k].win[i].buf # NULL]_vars

\* C20: in every reachable state full reports true exactly when a push of a
\* fresh buffer (one held in neither slot) made at that moment would return
\* Busy; so whenever full reports false the next such push succeeds.
C20_FullIffPushBusy ==
    Running =>
        \A len \in 1 .. MaxLen :
            LET fresh == Len(bufs) + 1
                r     == direct_fir_push_sample_buf(fir, fresh, len) IN
            /\ direct_fir_full(fir) <=> r.ret = A_E_BUSY
            /\ ~direct_fir_full(fir) => r.ret = A_OK /\ r.fault = "none"

\* full was asked after the second buffer had been promoted and a third queued
C20_Witness ==
    /\ Running
    /\ last.op = "full"
    /\ last.full
    /\ retired > 0
    /\ direct_fir_push_sample_buf(fir, Len(bufs) + 1, 1).ret = A_E_BUSY

====
